---------------------------- MODULE Spec2Model ----------------------------
(***************************************************************************)
(* Hirshfeld-E partitioning (horton/part/hirshfeld_e.py): the basis of     *)
(* deformation densities (HEBasis) and the two self-consistent backends    *)
(* HirshfeldEDPart and HirshfeldECPart.                                    *)
(*                                                                         *)
(* Real numbers are exact rationals <<n, d>> in lowest terms with d > 0;   *)
(* d = 0 stands for the non-finite floating point values (inf, -inf, nan). *)
(***************************************************************************)
EXTENDS Integers, Sequences, FiniteSets, TLC

(***************************************************************************)
(* Bounds of the model.                                                    *)
(***************************************************************************)
\* atoms in a molecule of the basis-builder specification
MaxAtoms == 2
\* longest list of charge states an element has in the database
MaxStates == 2
\* largest pseudo nuclear charge of an element in the database
MaxPseudo == 1
\* iterations the driver runs at most (maxiter)
MaxIter == 2
\* atomic charges the grid integration can produce: -1..MaxCharge
MaxCharge == 2
\* the solver returns vectors with integer entries in -MaxX..MaxX
MaxX == 2

(***************************************************************************)
(* Exact arithmetic.                                                       *)
(***************************************************************************)
Abs(n) == IF n < 0 THEN -n ELSE n

Sgn(n) == IF n < 0 THEN -1 ELSE IF n > 0 THEN 1 ELSE 0

RECURSIVE GCD(_, _)
GCD(a, b) == IF b = 0 THEN a ELSE GCD(b, a % b)

\* n/d in lowest terms; n/0 is inf, -inf or nan by the sign of n
Rat(n, d) ==
    IF d = 0 THEN <<Sgn(n), 0>>
    ELSE LET g == GCD(Abs(n), Abs(d))
         IN  <<(Sgn(d) * n) \div g, Abs(d) \div g>>

R(k) == <<k, 1>>

NaN == <<0, 0>>

IsFinite(a) == a[2] # 0

RNeg(a) == <<-a[1], a[2]>>

RAdd(a, b) ==
    IF IsFinite(a) /\ IsFinite(b) THEN Rat(a[1] * b[2] + b[1] * a[2], a[2] * b[2])
    ELSE IF IsFinite(b) THEN a
    ELSE IF IsFinite(a) \/ a = b THEN b
    ELSE NaN

RMul(a, b) ==
    IF IsFinite(a) /\ IsFinite(b) THEN Rat(a[1] * b[1], a[2] * b[2])
    ELSE <<Sgn(a[1]) * Sgn(b[1]), 0>>

\* floating point division: x/0 is inf, -inf or nan; x/inf is 0
RDiv(a, b) ==
    IF a = NaN \/ b = NaN THEN NaN
    ELSE IF ~IsFinite(a) THEN (IF IsFinite(b)
                               THEN <<a[1] * (IF b[1] < 0 THEN -1 ELSE 1), 0>>
                               ELSE NaN)
    ELSE IF ~IsFinite(b) THEN R(0)
    ELSE Rat(a[1] * b[2], a[2] * b[1])

\* comparisons with nan are false, as in floating point
RLeq(a, b) ==
    IF a = NaN \/ b = NaN THEN FALSE
    ELSE IF IsFinite(a) /\ IsFinite(b) THEN a[1] * b[2] <= b[1] * a[2]
    ELSE IF IsFinite(a) THEN b[1] > 0
    ELSE IF IsFinite(b) THEN a[1] < 0
    ELSE a[1] <= b[1]

RLt(a, b) == RLeq(a, b) /\ a # b

REq(a, b) == a # NaN /\ b # NaN /\ a = b

\* the integer r >= 0 with r*r = n, for a perfect square n
ISqrt(n) == CHOOSE r \in 0..n : r * r = n

\* x**0.5: nan for a negative x; the model's diagonals are perfect squares
RSqrt(a) ==
    IF a = NaN \/ a[1] < 0 THEN NaN
    ELSE IF ~IsFinite(a) THEN a
    ELSE <<ISqrt(a[1]), ISqrt(a[2])>>

RECURSIVE RSum(_)
RSum(s) == IF s = <<>> THEN R(0) ELSE RAdd(Head(s), RSum(Tail(s)))

\* numpy.dot of two vectors
RECURSIVE Dot(_, _)
Dot(u, v) ==
    IF u = <<>> THEN R(0) ELSE RAdd(RMul(Head(u), Head(v)), Dot(Tail(u), Tail(v)))

RECURSIVE SumInts(_)
SumInts(s) == IF s = <<>> THEN 0 ELSE Head(s) + SumInts(Tail(s))

Range(s) == {s[k] : k \in DOMAIN s}

\* s[b:e] of a Python sequence (0-based, e exclusive), 0 <= b <= e <= len(s)
Slice(s, b, e) == [k \in 1..(e - b) |-> s[b + k]]

\* s with s[b:b+len(v)] = v
SetSlice(s, b, v) ==
    [k \in DOMAIN s |-> IF k > b /\ k <= b + Len(v) THEN v[k - b] ELSE s[k]]

\* sequences over S of length lo..hi
SeqsOf(S, lo, hi) == UNION {[1..n -> S] : n \in lo..hi}

(***************************************************************************)
(* State.                                                                  *)
(***************************************************************************)
VARIABLES
    pc,          \* position of the caller: which operation comes next
    numbers,     \* system.numbers: the atomic number of every atom
    db,          \* proatomdb: per element its charge states as get_charges
                 \* returns them and its pseudo nuclear charge
    hebasis,     \* the HEBasis object: [nbasis, basis_specs]
    label,       \* what the last get_basis_label call returned: <<i, j, text>>
    basis_info   \* what the last get_basis_info call returned: <<map, names>>

basisvars == <<numbers, db, hebasis, label, basis_info>>

VARIABLES
    backend,     \* "D" for HirshfeldEDPart, "C" for HirshfeldECPart
    gram,        \* the integrals of products of basis functions (input)
    store_fake,  \* HirshfeldECPart: the array store keeps nothing
    procoeffs,   \* cache 'procoeffs': the global coefficient array
    charges,     \* cache 'charges': one charge per atom
    charges_from,\* per atom, the coefficients its charge was integrated from
    promol_from, \* the coefficients the pro-molecule density was built from
    atw_from,    \* the coefficients the stored at_weights were built from
    history,     \* self.history: entries <<charges, procoeffs>>
    cacheA,      \* cache 'A': key -> matrix
    cacheScales, \* cache 'scales': key -> vector
    computed,    \* how often A was assembled, per atomic number, and how
                 \* often B was computed
    qp,          \* the arguments of the last quadratic_solver call
    idx,         \* the atom the per-atom loop is at
    counter,     \* iterations started
    old_propars, \* the driver's copy of procoeffs before the update
    err,         \* the exception that ended the run
    results      \* what _finalize_propars dumped into the cache

drivervars == <<backend, gram, store_fake, procoeffs, charges, charges_from,
                promol_from, atw_from, history, cacheA, cacheScales, computed,
                qp, idx, counter, old_propars, err, results>>

vars == <<pc, basisvars, drivervars>>

(***************************************************************************)
(* The proatom database.                                                   *)
(***************************************************************************)
Elements == {1, 6}

\* the charge states the database has records of
ChargeStates == {-1, 0, 1}

\* the lists get_charges can return: distinct charge states in any order
ChargeSeqs ==
    {cs \in SeqsOf(ChargeStates, 1, MaxStates) :
        \A a, b \in DOMAIN cs : a # b => cs[a] # cs[b]}

DBEntries == [charges : ChargeSeqs, pseudo : 1..MaxPseudo]

\* proatomdb.get_charges(number, safe=True)
get_charges(number) == db[number].charges

\* proatomdb.get_record(number, charge).pseudo_population: the electrons
\* left at that charge state, the pseudo nuclear charge less the charge
pseudo_population(number, charge) == db[number].pseudo - charge

(***************************************************************************)
(* HEBasis                                                                 *)
(***************************************************************************)
\* the dict {k1: v1, k2: v2}: a repeated key keeps the later value
Dict2(k1, v1, k2, v2) == [k \in {k1, k2} |-> IF k = k2 THEN v2 ELSE v1]

Dict1(k1, v1) == [k \in {k1} |-> v1]

\* line 58: complete is read off the FIRST charge state the database returns
Complete(padb_charges, number) ==
    pseudo_population(number, padb_charges[1]) = 1

\* line 59
AtomNBasis(padb_charges, complete) ==
    Len(padb_charges) - 1 + (IF complete THEN 1 ELSE 0)

\* Lico with the two charge states of a difference exchanged
Lico_exchanged(padb_charges, complete, j) ==
    IF complete
    THEN IF j = 0
         THEN Dict1(padb_charges[j + 1], 1)
         ELSE Dict2(padb_charges[j], 1, padb_charges[j + 1], -1)
    ELSE Dict2(padb_charges[j + 1], 1, padb_charges[j + 2], -1)

\* lines 64-70: lico j (0-based) of an atom; padb_charges is 1-based here
Lico(padb_charges, complete, j) ==
    IF complete
    THEN IF j = 0
         THEN Dict1(padb_charges[j + 1], 1)
         ELSE Dict2(padb_charges[j + 1], 1, padb_charges[j], -1)
    ELSE Dict2(padb_charges[j + 2], 1, padb_charges[j + 1], -1)

\* HEBasisAtom with self.nbasis advanced before the atom's offset is taken
HEBasisAtom_late_begin(self, number) ==
    LET padb_charges == get_charges(number)
        complete     == Complete(padb_charges, number)
        atom_nbasis  == AtomNBasis(padb_charges, complete)
        licos        == [j1 \in 1..atom_nbasis |->
                            Lico(padb_charges, complete, j1 - 1)]
    IN  [nbasis      |-> self.nbasis + atom_nbasis,
         basis_specs |-> Append(self.basis_specs,
                                [begin  |-> self.nbasis + atom_nbasis,
                                 nbasis |-> atom_nbasis,
                                 licos  |-> licos])]

\* lines 55-72, one pass of the loop over the atoms: basis_specs gets
\* [self.nbasis, atom_nbasis, licos] and self.nbasis grows by atom_nbasis
HEBasisAtom(self, number) ==
    LET padb_charges == get_charges(number)
        complete     == Complete(padb_charges, number)
        atom_nbasis  == AtomNBasis(padb_charges, complete)
        licos        == [j1 \in 1..atom_nbasis |->
                            Lico(padb_charges, complete, j1 - 1)]
    IN  [nbasis      |-> self.nbasis + atom_nbasis,
         basis_specs |-> Append(self.basis_specs,
                                [begin  |-> self.nbasis,
                                 nbasis |-> atom_nbasis,
                                 licos  |-> licos])]

NoBasis == [nbasis |-> 0, basis_specs |-> <<>>]

\* HEBasis.__init__ over numbers[1..n]
RECURSIVE HEBasisUpTo(_, _)
HEBasisUpTo(nums, n) ==
    IF n = 0 THEN NoBasis ELSE HEBasisAtom(HEBasisUpTo(nums, n - 1), nums[n])

HEBasisInit(nums) == HEBasisUpTo(nums, Len(nums))

get_nbasis == hebasis.nbasis

\* atom indices are 0-based as in the source
get_atom_begin(i) == hebasis.basis_specs[i + 1].begin

get_atom_nbasis(i) == hebasis.basis_specs[i + 1].nbasis

get_basis_lico(i, j) == hebasis.basis_specs[i + 1].licos[j + 1]

natom == Len(numbers)

Atoms == 0..(natom - 1)

(***************************************************************************)
(* Text formatting.                                                        *)
(***************************************************************************)
Digits == <<"0", "1", "2", "3", "4", "5", "6", "7", "8", "9">>

\* '%i' of n >= 0
RECURSIVE FmtNat(_)
FmtNat(n) ==
    IF n < 10 THEN Digits[n + 1] ELSE FmtNat(n \div 10) \o Digits[(n % 10) + 1]

\* '%i'
FmtInt(n) == IF n < 0 THEN "-" \o FmtNat(-n) ELSE FmtNat(n)

\* '%+i': the sign is always written, also for zero
FmtSigned(n) == IF n < 0 THEN "-" \o FmtNat(-n) ELSE "+" \o FmtNat(n)

\* sorted(d.keys()): the keys in ascending order
RECURSIVE SortedKeys(_)
SortedKeys(S) ==
    IF S = {} THEN <<>>
    ELSE LET m == CHOOSE x \in S : \A y \in S : x <= y
         IN  <<m>> \o SortedKeys(S \ {m})

Reverse(s) == [k \in DOMAIN s |-> s[Len(s) + 1 - k]]

\* get_basis_label with the charges in descending order
get_basis_label_descending(i, j) ==
    LET keys == Reverse(SortedKeys(DOMAIN get_basis_lico(i, j)))
    IN  IF Len(keys) = 1
        THEN FmtSigned(keys[1])
        ELSE FmtSigned(keys[1]) \o "_" \o FmtSigned(keys[2])

\* lines 104-110
get_basis_label(i, j) ==
    LET keys == SortedKeys(DOMAIN get_basis_lico(i, j))
    IN  IF Len(keys) = 1
        THEN FmtSigned(keys[1])
        ELSE FmtSigned(keys[1]) \o "_" \o FmtSigned(keys[2])

\* the labels of atom i for j = 0..n-1, as '%i:%s' % (i, label)
AtomNames(i, n) ==
    [j1 \in 1..n |-> FmtInt(i) \o ":" \o get_basis_label(i, j1 - 1)]

\* lines 112-120
RECURSIVE BasisNamesUpTo(_)
BasisNamesUpTo(n) ==
    IF n = 0 THEN <<>>
    ELSE BasisNamesUpTo(n - 1) \o AtomNames(n - 1, hebasis.basis_specs[n].nbasis)

get_basis_info ==
    <<[i1 \in 1..natom |-> <<hebasis.basis_specs[i1].begin,
                             hebasis.basis_specs[i1].nbasis>>],
      BasisNamesUpTo(natom)>>

(***************************************************************************)
(* The basis builder on its own: any molecule over any database.           *)
(***************************************************************************)
NoCall == [index |-> -1, A |-> <<>>, lc_pop |-> <<>>, lcs_par |-> <<>>]

NoErr == [kind |-> "none", msg |-> "", args |-> <<>>]

NoResults ==
    [history_charges |-> <<>>, history_procoeffs |-> <<>>,
     pseudo_populations |-> <<>>, populations |-> <<>>]

\* nothing assembled or computed yet
NoneComputed == [A |-> [z \in Elements |-> 0], B |-> 0]

\* a history entry's charges before they are filled in (Python's None)
None == <<>>

DriverIdle ==
    /\ backend = "D"
    /\ gram = "spd"
    /\ store_fake = FALSE
    /\ procoeffs = <<>>
    /\ charges = <<>>
    /\ charges_from = <<>>
    /\ promol_from = <<>>
    /\ atw_from = <<>>
    /\ history = <<>>
    /\ cacheA = <<>>
    /\ cacheScales = <<>>
    /\ computed = NoneComputed
    /\ qp = NoCall
    /\ idx = 0
    /\ counter = 0
    /\ old_propars = <<>>
    /\ err = NoErr
    /\ results = NoResults

InitBasis ==
    /\ pc = "new"
    /\ numbers \in SeqsOf(Elements, 0, MaxAtoms)
    /\ db \in [Elements -> DBEntries]
    /\ hebasis = NoBasis
    /\ label = <<>>
    /\ basis_info = <<>>
    /\ DriverIdle

\* HEBasis(numbers, proatomdb)
Construct ==
    /\ pc = "new"
    /\ hebasis' = HEBasisInit(numbers)
    /\ pc' = "built"
    /\ UNCHANGED <<numbers, db, label, basis_info, drivervars>>

\* hebasis.get_basis_label(i, j)
GetBasisLabel ==
    /\ pc = "built"
    /\ \E i \in Atoms : \E j \in 0..(get_atom_nbasis(i) - 1) :
          label' = <<i, j, get_basis_label(i, j)>>
    /\ UNCHANGED <<pc, numbers, db, hebasis, basis_info, drivervars>>

\* hebasis.get_basis_info()
GetBasisInfo ==
    /\ pc = "built"
    /\ basis_info' = get_basis_info
    /\ UNCHANGED <<pc, numbers, db, hebasis, label, drivervars>>

NextBasis == Construct \/ GetBasisLabel \/ GetBasisInfo

SpecBasis == InitBasis /\ [][NextBasis]_vars

(***************************************************************************)
(* The inputs of a partitioning run.                                       *)
(***************************************************************************)
\* the molecules of the driver: H has two basis functions, C has one
DriverMolecules == {<<1>>, <<6>>, <<6, 1>>, <<6, 6>>}

\* a database that returns the charge states most positive first
DriverDB ==
    [z \in Elements |->
        IF z = 1 THEN [charges |-> <<0, -1>>, pseudo |-> 1]
                 ELSE [charges |-> <<0, -1>>, pseudo |-> 6]]

\* what the integration engine can return for the products of basis
\* functions: a positive definite table, one with a zero and one with a
\* negative diagonal entry, and a radial grid with a non-positive weight
GramKinds == {"spd", "zero", "neg", "badgrid"}

\* the integral of basis function j0 times basis function j1 (0-based)
Gram(kind, j0, j1) ==
    IF j0 # j1 THEN Rat(1, 2)
    ELSE IF j0 = 0 THEN (IF kind = "zero" THEN R(0) ELSE R(4))
    ELSE IF kind = "neg" THEN R(-1)
    ELSE R(1)

\* line 197: (weights > 0).all()
WeightsPositive == gram # "badgrid"

\* the charges the integration of a density can give
ChargeVals == {R(k) : k \in (0 - 1)..MaxCharge}

\* the values an entry of the solver's result can take
XVals == {R(k) : k \in (0 - MaxX)..MaxX}

\* system.pseudo_numbers[i]
pseudo_numbers(i) == db[numbers[i + 1]].pseudo

Zeros(n) == [k \in 1..n |-> R(0)]

\* v[begin_i : begin_i + nbasis_i]
SliceOf(v, i) == Slice(v, get_atom_begin(i), get_atom_begin(i) + get_atom_nbasis(i))

\* the coefficients a charge was integrated from: those of the atom's own
\* pro-atom and those of the pro-molecule it was divided by
NoFrom == [own |-> <<>>, promol |-> <<>>]

(***************************************************************************)
(* The quadratic-programming primitive: a vector that satisfies every      *)
(* equality (coeff . x = rhs) and inequality (coeff . x >= rhs) it is      *)
(* handed; the set is empty when there is none, and the call then fails.   *)
(***************************************************************************)
quadratic_solver(n, eqs, ineqs) ==
    {x \in [1..n -> XVals] :
        /\ \A e \in DOMAIN eqs : REq(Dot(eqs[e][1], x), eqs[e][2])
        /\ \A e \in DOMAIN ineqs : RLeq(ineqs[e][2], Dot(ineqs[e][1], x))}

(***************************************************************************)
(* The linear system of an atom.                                           *)
(***************************************************************************)
Max(a, b) == IF a < b THEN b ELSE a

Min(a, b) == IF a < b THEN a ELSE b

\* line 214: the second spline of A[j0, j1] is built from j0
D_spline1(j0, j1) == j0

\* lines 209-216: A[j0, j1] for j1 <= j0, mirrored into A[j1, j0]
D_assemble_A(nbasis) ==
    [a \in 1..nbasis |-> [b \in 1..nbasis |->
        LET j0 == Max(a, b) - 1
            j1 == Min(a, b) - 1
        IN  Gram(gram, j0, D_spline1(j0, j1))]]

\* line 218: (np.diag(A) < 0).any()
DiagNegative(A) == \E j \in DOMAIN A : RLt(A[j][j], R(0))

\* line 238
D_lc_pop(nbasis, target_charge) ==
    <<[j \in 1..nbasis |-> R(1)], RNeg(target_charge)>>

\* lines 240-244
D_lcs_par(nbasis) ==
    [j0 \in 1..nbasis |->
        <<[j \in 1..nbasis |-> IF j = j0 THEN R(1) ELSE R(0)], R(-1)>>]

\* lines 345-350: A[j0, j1] for j1 <= j0, mirrored into A[j1, j0]
C_assemble_A(nbasis) ==
    [a \in 1..nbasis |-> [b \in 1..nbasis |->
        Gram(gram, Max(a, b) - 1, Min(a, b) - 1)]]

\* line 353: scales = np.diag(A)**0.5
C_scales(A) == [j \in DOMAIN A |-> RSqrt(A[j][j])]

\* lines 354-355: A /= scales; A /= scales.reshape(-1, 1)
Precondition(A, scales) ==
    [a \in DOMAIN A |-> [b \in DOMAIN A |->
        RDiv(RDiv(A[a][b], scales[b]), scales[a])]]

\* C_lc_pop without the preconditioning of the constraint
C_lc_pop_unscaled(nbasis, scales, charge) ==
    <<[j \in 1..nbasis |-> R(1)], RNeg(charge)>>

\* line 375
C_lc_pop(nbasis, scales, charge) ==
    <<[j \in 1..nbasis |-> RDiv(R(1), scales[j])], RNeg(charge)>>

\* lines 377-381
C_lcs_par(nbasis, scales) ==
    [j0 \in 1..nbasis |->
        <<[j \in 1..nbasis |-> IF j = j0 THEN RDiv(R(1), scales[j0]) ELSE R(0)],
          R(-1)>>]

\* the solver's variables stored as they are
C_unscale_skipped(x, scales) == x

\* line 386: atom_procoeffs /= scales
C_unscale(x, scales) == [j \in DOMAIN x |-> RDiv(x[j], scales[j])]

\* lines 207-216 and 344-350 ran for an atom of this atomic number
AssembledA(c, number) == [c EXCEPT !.A[number] = @ + 1]

\* lines 224-234 and 364-369 ran
ComputedB(c) == [c EXCEPT !.B = @ + 1]

(***************************************************************************)
(* A partitioning run.                                                     *)
(***************************************************************************)
Init ==
    /\ pc = "init"
    /\ numbers \in DriverMolecules
    /\ db = DriverDB
    /\ hebasis = HEBasisInit(numbers)
    /\ label = <<>>
    /\ basis_info = <<>>
    /\ backend \in {"D", "C"}
    /\ gram \in GramKinds
    /\ store_fake \in BOOLEAN
    /\ backend = "D" => ~store_fake
    /\ backend = "C" => gram # "badgrid"
    /\ procoeffs = <<>>
    /\ charges = <<>>
    /\ charges_from = [i1 \in 1..natom |-> NoFrom]
    /\ promol_from = <<>>
    /\ atw_from = <<>>
    /\ history = <<>>
    /\ cacheA = <<>>
    /\ cacheScales = <<>>
    /\ computed = NoneComputed
    /\ qp = NoCall
    /\ idx = 0
    /\ counter = 0
    /\ old_propars = <<>>
    /\ err = NoErr
    /\ results = NoResults

inputs == <<numbers, db, hebasis, label, backend, gram, store_fake>>

\* an exception, with its message and the values formatted into it, leaves
\* the iteration where it is
Raise(kind, msg, args) ==
    /\ err' = [kind |-> kind, msg |-> msg, args |-> args]
    /\ pc' = "aborted"
    /\ idx' = idx

\* the loop over the atoms moves on; after the last atom the update goes on
Advance(after) ==
    /\ err' = err
    /\ idx' = idx + 1
    /\ pc' = IF idx + 1 = natom THEN after ELSE "atoms"

\* lines 140-146
init_propars ==
    /\ pc = "init"
    /\ history' = <<>>
    /\ basis_info' = get_basis_info
    /\ procoeffs' = Zeros(get_nbasis)
    /\ pc' = "loop"
    /\ UNCHANGED <<inputs, charges, charges_from, promol_from, atw_from,
                   cacheA, cacheScales, computed, qp, idx, counter, old_propars, err,
                   results>>

\* the driver starts an iteration: it keeps a copy of the parameters
DriverIterate ==
    /\ pc = "loop"
    /\ counter' = counter + 1
    /\ old_propars' = procoeffs
    /\ pc' = "update"
    /\ UNCHANGED <<inputs, basis_info, procoeffs, charges, charges_from,
                   promol_from, atw_from, history, cacheA, cacheScales, computed, qp,
                   idx, err, results>>

\* the driver stops when nothing changed by more than the threshold, or at
\* maxiter
DriverCheck ==
    /\ pc = "check"
    /\ LET converged ==
               \A k \in DOMAIN procoeffs : REq(procoeffs[k], old_propars[k])
       IN  pc' = IF converged \/ counter >= MaxIter THEN "finalize" ELSE "loop"
    /\ UNCHANGED <<inputs, basis_info, procoeffs, charges, charges_from,
                   promol_from, atw_from, history, cacheA, cacheScales, computed, qp,
                   idx, counter, old_propars, err, results>>

\* lines 167-184: the charges of all atoms from the current procoeffs, then
\* the history entry
D_update_propars ==
    /\ backend = "D"
    /\ pc = "update"
    /\ charges' \in [1..natom -> ChargeVals]
    /\ charges_from' =
          [i1 \in 1..natom |->
              [own |-> SliceOf(procoeffs, i1 - 1), promol |-> procoeffs]]
    /\ history' = Append(history, <<charges', procoeffs>>)
    /\ idx' = 0
    /\ pc' = "atoms"
    /\ UNCHANGED <<inputs, basis_info, procoeffs, promol_from, atw_from,
                   cacheA, cacheScales, computed, qp, counter, old_propars, err,
                   results>>

\* lines 186-252, one pass of the loop of line 186
D_update_propars_atom ==
    /\ backend = "D"
    /\ pc = "atoms"
    /\ idx < natom
    /\ LET index         == idx
           number        == numbers[index + 1]
           target_charge == charges[index + 1]
           begin         == get_atom_begin(index)
           nbasis        == get_atom_nbasis(index)
           has           == number \in DOMAIN cacheA
           A             == IF has THEN cacheA[number] ELSE D_assemble_A(nbasis)
           lc_pop        == D_lc_pop(nbasis, target_charge)
           lcs_par       == D_lcs_par(nbasis)
           solutions     == quadratic_solver(nbasis, <<lc_pop>>, lcs_par)
       IN  IF ~WeightsPositive
           THEN /\ Raise("AssertionError", "", <<>>)
                /\ UNCHANGED <<cacheA, computed, qp, procoeffs>>
           ELSE IF ~has /\ DiagNegative(A)
           THEN /\ Raise("ValueError", "The diagonal of A must be positive.", <<>>)
                /\ computed' = AssembledA(computed, number)
                /\ UNCHANGED <<cacheA, qp, procoeffs>>
           ELSE /\ cacheA' = IF has THEN cacheA ELSE (number :> A) @@ cacheA
                /\ computed' = ComputedB(IF has THEN computed
                                                ELSE AssembledA(computed, number))
                /\ qp' = [index |-> index, A |-> A, lc_pop |-> lc_pop,
                          lcs_par |-> lcs_par]
                /\ IF solutions = {}
                   THEN /\ Raise("SolverError", "", <<>>)
                        /\ procoeffs' = procoeffs
                   ELSE /\ \E atom_procoeffs \in solutions :
                              procoeffs' = SetSlice(procoeffs, begin, atom_procoeffs)
                        /\ Advance("check")
    /\ UNCHANGED <<inputs, basis_info, charges, charges_from, promol_from,
                   atw_from, history, cacheScales, counter, old_propars,
                   results>>

\* lines 148-154, with the charges loaded from the cache
finalize_propars ==
    /\ history' = Append(history, <<charges', procoeffs>>)
    /\ results' =
          [history_charges    |-> [k \in DOMAIN history' |-> history'[k][1]],
           history_procoeffs  |-> [k \in DOMAIN history' |-> history'[k][2]],
           pseudo_populations |->
               [i1 \in 1..natom |->
                   RAdd(R(pseudo_numbers(i1 - 1)), RNeg(charges'[i1]))],
           populations        |->
               [i1 \in 1..natom |-> RAdd(R(numbers[i1]), RNeg(charges'[i1]))]]
    /\ pc' = "done"

\* HirshfeldEDPart inherits _finalize_propars of the mixin
D_finalize_propars ==
    /\ backend = "D"
    /\ pc = "finalize"
    /\ charges' = charges
    /\ finalize_propars
    /\ UNCHANGED <<inputs, basis_info, procoeffs, charges_from, promol_from,
                   atw_from, cacheA, cacheScales, computed, qp, idx, counter,
                   old_propars, err>>

\* C_aimdens_from with the pro-molecule density rebuilt from the
\* coefficients as they are when the atom is reached
C_aimdens_from_fresh_promol(index) ==
    [own    |-> IF store_fake THEN SliceOf(procoeffs, index)
                              ELSE SliceOf(atw_from, index),
     promol |-> procoeffs]

\* line 319: the stored at_weights of the atom are there unless the store
\* is fake; otherwise lines 322-323 build them from the atom's current
\* coefficients and the pro-molecule density of the cache
C_aimdens_from(index) ==
    [own    |-> IF store_fake THEN SliceOf(procoeffs, index)
                              ELSE SliceOf(atw_from, index),
     promol |-> promol_from]

\* lines 393-404: the history entry without charges, the pro-molecule
\* density and the atomic weight functions from the current procoeffs
C_update_propars ==
    /\ backend = "C"
    /\ pc = "update"
    /\ history' = Append(history, <<None, procoeffs>>)
    /\ promol_from' = procoeffs
    /\ atw_from' = IF store_fake THEN atw_from ELSE procoeffs
    /\ idx' = 0
    /\ pc' = "atoms"
    /\ UNCHANGED <<inputs, basis_info, procoeffs, charges, charges_from,
                   cacheA, cacheScales, computed, qp, counter, old_propars, err,
                   results>>

\* lines 311-391, one pass of the loop of line 407
C_update_propars_atom ==
    /\ backend = "C"
    /\ pc = "atoms"
    /\ idx < natom
    /\ \E charge \in ChargeVals :
          LET index     == idx
              allocated == IF charges = <<>> THEN Zeros(natom) ELSE charges
              begin     == get_atom_begin(index)
              nbasis    == get_atom_nbasis(index)
              new       == index \notin DOMAIN cacheA
              scales    == IF new THEN C_scales(C_assemble_A(nbasis))
                                  ELSE cacheScales[index]
              A         == IF new THEN Precondition(C_assemble_A(nbasis), scales)
                                  ELSE cacheA[index]
              lc_pop    == C_lc_pop(nbasis, scales, charge)
              lcs_par   == C_lcs_par(nbasis, scales)
              solutions == quadratic_solver(nbasis, <<lc_pop>>, lcs_par)
          IN  /\ charges' = [allocated EXCEPT ![index + 1] = charge]
              /\ charges_from' =
                    [charges_from EXCEPT ![index + 1] = C_aimdens_from(index)]
              /\ IF RLt(R(nbasis), charge)
                 THEN /\ Raise("RuntimeError",
                            "The charge on atom %i becomes too positive: %f > %i. (infeasible)",
                            <<index, charge, nbasis>>)
                      /\ UNCHANGED <<cacheA, cacheScales, computed, qp,
                                     procoeffs>>
                 ELSE /\ cacheA' = IF new THEN (index :> A) @@ cacheA ELSE cacheA
                      /\ computed' =
                            ComputedB(IF new
                                      THEN AssembledA(computed, numbers[index + 1])
                                      ELSE computed)
                      /\ cacheScales' = IF new THEN (index :> scales) @@ cacheScales
                                               ELSE cacheScales
                      /\ qp' = [index |-> index, A |-> A, lc_pop |-> lc_pop,
                                lcs_par |-> lcs_par]
                      /\ IF solutions = {}
                         THEN /\ Raise("SolverError", "", <<>>)
                              /\ procoeffs' = procoeffs
                         ELSE /\ \E x \in solutions :
                                    procoeffs' =
                                        SetSlice(procoeffs, begin, C_unscale(x, scales))
                              /\ Advance("fill")
    /\ UNCHANGED <<inputs, basis_info, promol_from, atw_from, history,
                   counter, old_propars, results>>

\* line 410: the charges go into the entry appended at line 394
C_update_propars_end ==
    /\ backend = "C"
    /\ pc = "fill"
    /\ history' = [history EXCEPT ![Len(history)][1] = charges]
    /\ pc' = "check"
    /\ UNCHANGED <<inputs, basis_info, procoeffs, charges, charges_from,
                   promol_from, atw_from, cacheA, cacheScales, computed, qp, idx,
                   counter, old_propars, err, results>>

\* lines 412-430: the charges are integrated again, from the stored
\* at_weights (the same integrals as in the last update) or from the
\* current pro-atoms over the pro-molecule density of the cache; then the
\* mixin's _finalize_propars
C_finalize_propars ==
    /\ backend = "C"
    /\ pc = "finalize"
    /\ IF store_fake THEN charges' \in [1..natom -> ChargeVals]
                     ELSE charges' = charges
    /\ charges_from' = [i1 \in 1..natom |-> C_aimdens_from(i1 - 1)]
    /\ finalize_propars
    /\ UNCHANGED <<inputs, basis_info, procoeffs, promol_from, atw_from,
                   cacheA, cacheScales, computed, qp, idx, counter, old_propars, err>>

Next ==
    \/ init_propars
    \/ DriverIterate
    \/ DriverCheck
    \/ D_update_propars
    \/ D_update_propars_atom
    \/ D_finalize_propars
    \/ C_update_propars
    \/ C_update_propars_atom
    \/ C_update_propars_end
    \/ C_finalize_propars

Spec == Init /\ [][Next]_vars

(***************************************************************************)
(* Properties of the basis builder.                                        *)
(***************************************************************************)
MostPositive(cs) == CHOOSE c \in Range(cs) : \A d \in Range(cs) : d <= c

\* C5: every atom's nbasis is (number of charge states) - 1 + (1 if complete
\* else 0), where complete holds exactly when the MOST POSITIVE charge state
\* has pseudo_population 1, in whatever order get_charges returns the states.
C5_NBasisFromMostPositive ==
    pc = "built" =>
        \A i \in Atoms :
            LET cs == get_charges(numbers[i + 1])
            IN  get_atom_nbasis(i) =
                    Len(cs) - 1
                    + (IF pseudo_population(numbers[i + 1], MostPositive(cs)) = 1
                       THEN 1 ELSE 0)

\* the lico {plus: 1, minus: -1}
Difference(plus, minus) == [k \in {plus, minus} |-> IF k = plus THEN 1 ELSE -1]

\* C6: with c the charge states as returned: if complete, lico 0 is {c[0]: 1}
\* and lico j >= 1 is {c[j]: 1, c[j-1]: -1}; if not complete, lico j is
\* {c[j+1]: 1, c[j]: -1}.  Every lico has one or two keys, and a two-key lico
\* pairs adjacent charge states with coefficients +1 and -1.
C6_LicoStructure ==
    pc = "built" =>
        \A i \in Atoms :
            LET c        == get_charges(numbers[i + 1])
                spec     == hebasis.basis_specs[i + 1]
                complete == spec.nbasis = Len(c)
            IN  /\ Len(spec.licos) = spec.nbasis
                /\ \A j \in 0..(spec.nbasis - 1) :
                      LET lico == spec.licos[j + 1]
                      IN  /\ Cardinality(DOMAIN lico) \in {1, 2}
                          /\ IF complete
                             THEN IF j = 0
                                  THEN lico = [k \in {c[1]} |-> 1]
                                  ELSE lico = Difference(c[j + 1], c[j])
                             ELSE lico = Difference(c[j + 2], c[j + 1])

\* an atom with a single-state lico followed by a difference
C6_Witness ==
    /\ pc = "built"
    /\ \E i \in Atoms :
          /\ get_atom_nbasis(i) = 2
          /\ Cardinality(DOMAIN get_basis_lico(i, 0)) = 1
          /\ Cardinality(DOMAIN get_basis_lico(i, 1)) = 2

\* C7: begin[0] = 0, begin[i+1] = begin[i] + nbasis[i], get_nbasis() is the
\* sum of all nbasis[i]; get_basis_info returns the same (begin, nbasis) map
\* and exactly get_nbasis() labels.
C7_ContiguousOffsets ==
    pc = "built" =>
        LET bs == hebasis.basis_specs
        IN  /\ Len(bs) = natom
            /\ \A i1 \in 1..natom :
                  bs[i1].begin = (IF i1 = 1 THEN 0
                                  ELSE bs[i1 - 1].begin + bs[i1 - 1].nbasis)
            /\ get_nbasis = SumInts([i1 \in 1..natom |-> bs[i1].nbasis])
            /\ basis_info # <<>> =>
                  /\ basis_info[1] =
                        [i1 \in 1..natom |-> <<bs[i1].begin, bs[i1].nbasis>>]
                  /\ Len(basis_info[2]) = get_nbasis

\* two atoms with basis functions each, and get_basis_info called
C7_Witness ==
    /\ pc = "built"
    /\ natom = 2
    /\ get_atom_nbasis(0) > 0
    /\ get_atom_nbasis(1) > 0
    /\ get_atom_begin(1) = get_atom_nbasis(0)
    /\ basis_info # <<>>

Updated(i) == pc # "done" /\ i < idx

\* C1 as stated: after the per-atom update of atom i with charge q_i, the
\* coefficients written into its slice of procoeffs sum to q_i.
C1_SumIsCharge ==
    \A i \in Atoms :
        Updated(i) => REq(RSum(SliceOf(procoeffs, i)), charges[i + 1])

\* C1 amended: after the per-atom update of atom i with charge q_i, the
\* coefficients written into its slice of procoeffs sum to -q_i, in both
\* backends (in HirshfeldECPart after the division by scales).
C1_SumIsMinusCharge ==
    \A i \in Atoms :
        Updated(i) => REq(RSum(SliceOf(procoeffs, i)), RNeg(charges[i + 1]))

\* HirshfeldECPart has updated an atom of two basis functions, whose scales
\* are 2 and 1, with charge 1
C1_Witness ==
    /\ backend = "C"
    /\ \E i \in Atoms :
          /\ Updated(i)
          /\ get_atom_nbasis(i) = 2
          /\ cacheScales[i] = <<R(2), R(1)>>
          /\ charges[i + 1] = R(1)
          /\ RSum(SliceOf(procoeffs, i)) = R(-1)

\* C2: every entry of procoeffs is >= -1 at all times, in both backends; in
\* HirshfeldECPart this is about the stored, un-scaled coefficients.
C2_CoefficientsAtLeastMinusOne ==
    \A k \in DOMAIN procoeffs : RLeq(R(-1), procoeffs[k])

\* HirshfeldECPart has stored the coefficient -1 for a basis function whose
\* scale is 2
C2_Witness ==
    /\ backend = "C"
    /\ \E i \in Atoms :
          /\ Updated(i)
          /\ cacheScales[i][1] = R(2)
          /\ procoeffs[get_atom_begin(i) + 1] = R(-1)

\* C3: whenever a per-atom update is entered with a target charge above the
\* atom's nbasis, an infeasibility error that carries the atom index, the
\* target and the basis size is raised, the quadratic solver is not called
\* and the atom's slice of procoeffs is left as it was.  (Stated for runs
\* whose integrals are well formed, so that no other error comes first.)
C3_InfeasibleRaisedBeforeSolve ==
    [][(/\ pc = "atoms"
        /\ gram = "spd"
        /\ RLt(R(get_atom_nbasis(idx)), charges'[idx + 1]))
       => (/\ err'.kind = "RuntimeError"
           /\ err'.args = <<idx, charges'[idx + 1], get_atom_nbasis(idx)>>
           /\ qp' = qp
           /\ procoeffs' = procoeffs)]_vars

\* C4: when a freshly assembled A has a zero or negative diagonal entry, an
\* error is raised before A is cached, before scales = sqrt(diag(A)) is used
\* and before the solver is called: no cached A of HirshfeldEDPart has a
\* non-positive diagonal entry and no cached scales has a non-positive entry.
C4_NonPositiveDiagonalRaises ==
    /\ backend = "D" =>
          \A k \in DOMAIN cacheA : \A j \in DOMAIN cacheA[k] :
              RLt(R(0), cacheA[k][j][j])
    /\ \A k \in DOMAIN cacheScales : \A j \in DOMAIN cacheScales[k] :
          RLt(R(0), cacheScales[k][j])

\* C9: the history is append-only: after N calls of _update_propars its
\* length is N, after _finalize_propars N+1; an entry is never changed once
\* appended, and when an error ends the run every entry holds the charges
\* of all atoms.  (Stated for runs whose integrals are well formed.)
C9_HistoryAppendOnly ==
    [][gram = "spd" =>
          /\ Len(history') >= Len(history)
          /\ \A k \in DOMAIN history : history'[k] = history[k]
          /\ pc' = "check" => Len(history') = counter'
          /\ pc' = "done" => Len(history') = counter' + 1
          /\ pc' = "aborted" =>
                \A k \in DOMAIN history' : Len(history'[k][1]) = natom]_vars

\* C10: after finalization the last history entry holds the final procoeffs
\* and the charges of the cache, the persisted populations are derived from
\* these charges, and every atom's charge was integrated from the procoeffs
\* of that same entry.
C10_FinalChargesFromFinalProcoeffs ==
    pc = "done" =>
        LET last == history[Len(history)]
        IN  /\ last[1] = charges
            /\ last[2] = procoeffs
            /\ results.pseudo_populations =
                  [i1 \in 1..natom |->
                      RAdd(R(pseudo_numbers(i1 - 1)), RNeg(charges[i1]))]
            /\ results.populations =
                  [i1 \in 1..natom |-> RAdd(R(numbers[i1]), RNeg(charges[i1]))]
            /\ \A i \in Atoms :
                  charges_from[i + 1] =
                      [own |-> SliceOf(last[2], i), promol |-> last[2]]

\* the inner products of the atom's basis functions, entry by entry
InnerProducts(nbasis) ==
    [a \in 1..nbasis |-> [b \in 1..nbasis |-> Gram(gram, a - 1, b - 1)]]

\* C11: a freshly assembled A holds at [j0, j1] the inner product of basis
\* function j0 with basis function j1 of the atom and is symmetric: what
\* HirshfeldEDPart caches is the table of inner products, and what
\* HirshfeldECPart caches is that table divided by its scales.
C11_AIsInnerProducts ==
    \A k \in DOMAIN cacheA :
        LET A == cacheA[k]
            G == InnerProducts(Len(A))
        IN  /\ \A a, b \in DOMAIN A : A[a][b] = A[b][a]
            /\ backend = "D" => A = G
            /\ backend = "C" => A = Precondition(G, C_scales(G))

\* the per-atom update went past its checks, to the lines that compute B
ReachedB ==
    /\ pc = "atoms"
    /\ err'.kind \notin {"AssertionError", "ValueError", "RuntimeError"}

\* C12: over a whole run A is assembled at most once per distinct atomic
\* number, in both backends: a second atom of the same element and every
\* later iteration reuse the cached A; B is computed in every per-atom
\* update.
C12_AssembledOncePerElement ==
    [][/\ \A z \in Elements : computed'.A[z] <= 1
       /\ ReachedB => computed'.B = computed.B + 1]_vars

\* the procoeffs the current iteration started from: the copy that
\* _update_propars put into the history
IterationStart == history[Len(history)][2]

=============================================================================
